---- MODULE Spec2Model ----
(***************************************************************************)
(* Model of the leads-management CRM: the five tables of the migration     *)
(* with their foreign keys and row-level security policies, and the        *)
(* Contacts / Deals / Tasks / Activities screens that read and write them. *)
(*                                                                         *)
(* Columns that the schema and the screens treat identically (the free     *)
(* text columns industry, website, phone, address, title ...) are          *)
(* represented by one column of each kind per table.                       *)
(*                                                                         *)
(* The status filter of Tasks and the search box of Contacts only narrow   *)
(* the rows a screen renders; the model renders the whole list (filter     *)
(* 'all', empty search).  The clock does not advance within a behaviour:   *)
(* a screen mounts at any instant of Times.                                *)
(***************************************************************************)
EXTENDS Integers, Sequences, FiniteSets, Bags, TLC

(* ------------------------------ bounds -------------------------------- *)

\* number of uuids gen_random_uuid() hands out in one behaviour
MaxIds == 2
\* last instant of the clock
MaxTime == 2
\* clicks and form edits of the screen's user in one behaviour
MaxClicks == 3
\* requests of the screen that may be in flight when the user starts another
MaxInflight == 2
\* instants in one calendar day (the grain of a date input)
DayLen == 2
\* instants in one minute (the grain of a datetime-local input)
MinuteLen == 2
\* most tasks in one answer to the Dashboard's tasks query, and most
\* overdue ones among them
MaxTasks == 199
MaxOverdue == 3

(* ------------------------------ values -------------------------------- *)

\* SQL NULL / JavaScript null in a text, enum or user column
NULL == "NULL"
\* null in a uuid column
NoId == 0
\* null in a timestamp column
NoTime == -1

\* authenticated users (auth.users)
Users == {"A", "B"}

Ids == 1..MaxIds
Times == 0..MaxTime

Tables == {"companies", "contacts", "deals", "tasks", "activities"}

DEAL_STAGES == {"lead", "qualified", "proposal", "negotiation", "closed_won", "closed_lost"}
PRIORITIES == {"low", "medium", "high"}
STATUSES == {"pending", "in_progress", "completed"}
ACTIVITY_TYPES == {"call", "email", "meeting", "note"}

(* ------------------------------ schema -------------------------------- *)

CompanyColumns == {"id", "name", "notes", "user_id", "created_at", "updated_at"}
ContactColumns ==
  {"id", "first_name", "last_name", "email", "company_id", "user_id",
   "created_at", "updated_at"}
DealColumns ==
  {"id", "title", "value", "stage", "probability", "expected_close_date",
   "company_id", "contact_id", "notes", "user_id", "created_at", "updated_at"}
TaskColumns ==
  {"id", "title", "description", "due_date", "priority", "status",
   "contact_id", "company_id", "deal_id", "user_id", "created_at", "updated_at"}
ActivityColumns ==
  {"id", "type", "subject", "description", "activity_date",
   "contact_id", "company_id", "deal_id", "user_id", "created_at"}

Columns(t) ==
  CASE t = "companies" -> CompanyColumns
    [] t = "contacts" -> ContactColumns
    [] t = "deals" -> DealColumns
    [] t = "tasks" -> TaskColumns
    [] t = "activities" -> ActivityColumns

\* columns declared NOT NULL
NotNullColumns(t) ==
  CASE t = "companies" -> {"id", "name", "user_id"}
    [] t = "contacts" -> {"id", "first_name", "last_name", "user_id"}
    [] t = "deals" -> {"id", "title", "stage", "user_id"}
    [] t = "tasks" -> {"id", "title", "priority", "status", "user_id"}
    [] t = "activities" -> {"id", "type", "subject", "activity_date", "user_id"}

\* REFERENCES clauses: <<referencing column, referenced table>>
ForeignKeys(t) ==
  CASE t = "companies" -> {}
    [] t = "contacts" -> {<<"company_id", "companies">>}
    [] t = "deals" -> {<<"company_id", "companies">>, <<"contact_id", "contacts">>}
    [] t = "tasks" ->
         {<<"contact_id", "contacts">>, <<"company_id", "companies">>, <<"deal_id", "deals">>}
    [] t = "activities" ->
         {<<"contact_id", "contacts">>, <<"company_id", "companies">>, <<"deal_id", "deals">>}

IdColumns == {"id", "company_id", "contact_id", "deal_id"}
TimeColumns == {"created_at", "updated_at", "due_date", "expected_close_date", "activity_date"}
NumberColumns == {"value", "probability"}

\* the null of a column's type
NullOf(c) ==
  IF c \in IdColumns THEN NoId
  ELSE IF c \in TimeColumns \/ c \in NumberColumns THEN NoTime
  ELSE NULL

\* DEFAULT clauses, evaluated at time now with a fresh uuid
ColumnDefault(t, c, id, now) ==
  CASE c = "id" -> id
    [] c \in {"created_at", "updated_at"} -> now
    [] c = "activity_date" -> now
    [] c \in {"value", "probability"} -> 0
    [] c = "stage" -> "lead"
    [] c = "priority" -> "medium"
    [] c = "status" -> "pending"
    [] OTHER -> NullOf(c)

(* ------------------------------- state -------------------------------- *)

VARIABLES
  db,          \* the store: table name -> set of rows
  nextId,      \* the next uuid gen_random_uuid() returns
  now,         \* the current instant (now(), new Date())
  insertedBy,  \* history: row id -> the authenticated user whose insert stored it
  last         \* the store's latest response, with the request it answers

storeVars == <<db, nextId, now, insertedBy, last>>

VARIABLES
  view,         \* the mounted screen (App's currentView)
  list,         \* the screen's list state: contacts / deals / tasks / activities
  options,      \* the screen's picker lists: companies, contacts
  loading,      \* the screen's loading flag
  isModalOpen,  \* whether the form is shown
  editing,      \* id of editingContact / editingDeal / editingTask, NoId for null
  formData,     \* the form's fields, as the strings the inputs hold
  blocked,      \* the browser refused the last submit and shows why
  net,          \* requests and responses in flight between screen and store
  clicks        \* history: the number of clicks and form edits so far

VARIABLES
  stats,        \* the Dashboard's stats state
  dealsByStage  \* the Dashboard's dealsByStage state: stage -> number of deals

dashVars == <<stats, dealsByStage>>

uiVars ==
  <<view, list, options, loading, isModalOpen, editing, formData, blocked, net, clicks,
    stats, dealsByStage>>

vars == <<db, nextId, now, insertedBy, last,
          view, list, options, loading, isModalOpen, editing, formData, blocked, net,
          clicks, stats, dealsByStage>>

(* ----------------------- row-level security --------------------------- *)

\* a policy written USING (true): every authenticated user passes
RlsUsingAnyone(u, row) == TRUE

\* USING (auth.uid() = user_id) of the SELECT, UPDATE and DELETE policies
RlsUsing(u, row) == u = row.user_id

\* a policy written WITH CHECK (true)
RlsWithCheckAnyone(u, row) == TRUE

\* WITH CHECK (auth.uid() = user_id) of the INSERT and UPDATE policies
RlsWithCheck(u, row) == u = row.user_id

(* --------------------------- the four operations ---------------------- *)

\* select * from t, as caller u
Select(d, u, t) == {r \in d[t] : RlsUsing(u, r)}

\* the row an insert builds: the payload's columns, the defaults for the rest
NewRow(t, payload, id, time) ==
  [c \in Columns(t) |->
     IF c \in DOMAIN payload THEN payload[c] ELSE ColumnDefault(t, c, id, time)]

\* an update that leaves the row's updated_at as it was
PatchedRowKeepsStamp(t, row, patch) ==
  [c \in Columns(t) |->
     IF c \in DOMAIN patch /\ c # "updated_at" THEN patch[c] ELSE row[c]]

\* the row an update builds: the payload's columns over the old row
PatchedRow(t, row, patch) ==
  [c \in Columns(t) |-> IF c \in DOMAIN patch THEN patch[c] ELSE row[c]]

NotNullOk(t, row) == \A c \in NotNullColumns(t) : row[c] # NullOf(c)

\* a non-null reference must name an existing row of the referenced table;
\* the check reads the referenced table itself, not the caller's view of it
ForeignKeysOk(d, t, row) ==
  \A fk \in ForeignKeys(t) :
    row[fk[1]] = NoId \/ \E r \in d[fk[2]] : r.id = row[fk[1]]

\* the error a new or changed row raises, "none" when it is accepted
RowError(d, u, t, row) ==
  IF ~RlsWithCheck(u, row) THEN "rls"
  ELSE IF ~NotNullOk(t, row) THEN "not_null"
  ELSE IF ~ForeignKeysOk(d, t, row) THEN "foreign_key"
  ELSE "none"

\* insert into t: the new store, the number of rows affected, the error
Insert(d, u, t, payload, id, time) ==
  LET row == NewRow(t, payload, id, time)
      err == RowError(d, u, t, row)
  IN IF err # "none"
       THEN [db |-> d, count |-> 0, error |-> err]
       ELSE [db |-> [d EXCEPT ![t] = @ \cup {row}], count |-> 1, error |-> "none"]

\* an update that lost its .eq('id', id) filter: every row the caller sees
UpdateWithoutFilter(d, u, t, id, patch) ==
  LET targets == {r \in d[t] : RlsUsing(u, r)}
  IN [db |-> [d EXCEPT ![t] =
                (@ \ targets) \cup {PatchedRow(t, r, patch) : r \in targets}],
      count |-> Cardinality(targets), error |-> "none"]

\* an update that is refused once the row has been updated before
UpdateOnce(d, u, t, id, patch) ==
  LET targets == {r \in d[t] : r.id = id /\ RlsUsing(u, r)
                                 /\ r.updated_at = r.created_at}
  IN IF targets = {}
       THEN [db |-> d, count |-> 0, error |-> "none"]
       ELSE [db |-> [d EXCEPT ![t] =
                       (@ \ targets) \cup {PatchedRow(t, r, patch) : r \in targets}],
             count |-> Cardinality(targets), error |-> "none"]

\* update t set patch where id = id
Update(d, u, t, id, patch) ==
  LET targets == {r \in d[t] : r.id = id /\ RlsUsing(u, r)}
      errs == {RowError(d, u, t, PatchedRow(t, r, patch)) : r \in targets} \ {"none"}
  IN IF targets = {}
       THEN [db |-> d, count |-> 0, error |-> "none"]
     ELSE IF errs # {}
       THEN [db |-> d, count |-> 0, error |-> CHOOSE e \in errs : TRUE]
     ELSE [db |-> [d EXCEPT ![t] =
                     (@ \ targets) \cup {PatchedRow(t, r, patch) : r \in targets}],
           count |-> Cardinality(targets), error |-> "none"]

\* foreign keys declared ON DELETE CASCADE: the referencing rows go too
SetNullCascade(d, t, ids) ==
  [t2 \in Tables |->
     {r \in d[t2] : \A c \in Columns(t2) : ~(<<c, t>> \in ForeignKeys(t2) /\ r[c] \in ids)}]

\* ON DELETE SET NULL: every reference to a deleted row of t becomes null
SetNull(d, t, ids) ==
  [t2 \in Tables |->
     {[c \in Columns(t2) |->
         IF <<c, t>> \in ForeignKeys(t2) /\ r[c] \in ids THEN NoId ELSE r[c]] :
      r \in d[t2]}]

\* a delete that tells the caller when the row exists but is not theirs
DeleteReportsForbidden(d, u, t, id) ==
  LET targets == {r \in d[t] : r.id = id /\ RlsUsing(u, r)}
  IN IF targets = {}
       THEN [db |-> d, count |-> 0,
             error |-> IF \E r \in d[t] : r.id = id THEN "rls" ELSE "none"]
       ELSE [db |-> SetNull([d EXCEPT ![t] = @ \ targets], t, {r.id : r \in targets}),
             count |-> Cardinality(targets), error |-> "none"]

\* delete from t where id = id
Delete(d, u, t, id) ==
  LET targets == {r \in d[t] : r.id = id /\ RlsUsing(u, r)}
  IN IF targets = {}
       THEN [db |-> d, count |-> 0, error |-> "none"]
       ELSE [db |-> SetNull([d EXCEPT ![t] = @ \ targets], t, {r.id : r \in targets}),
             count |-> Cardinality(targets), error |-> "none"]

(* ------------------- requests sent straight to the API ---------------- *)

FkColumns(t) == {fk[1] : fk \in ForeignKeys(t)}

\* the required columns of a row any client may send
RequiredFields(t) ==
  CASE t = "companies" -> [name |-> "x"]
    [] t = "contacts" -> [first_name |-> "x", last_name |-> "x"]
    [] t = "deals" -> [title |-> "x"]
    [] t = "tasks" -> [title |-> "x"]
    [] t = "activities" -> [type |-> "note", subject |-> "x"]

\* the uuids handed out so far: the ids a client can have seen
IssuedIds == 1..(nextId - 1)

\* insert payloads: any user as user_id, any value in each reference
ApiPayloads(t) ==
  {RequiredFields(t) @@ [user_id |-> o] @@ f :
     o \in Users, f \in [FkColumns(t) -> IssuedIds \cup {NoId}]}

\* update payloads: another owner, another reference, and on deals a stage
\* text that no screen offers
ApiPatches(t) ==
  {[user_id |-> o] : o \in Users}
    \cup {(c :> i) : c \in FkColumns(t), i \in IssuedIds \cup {NoId}}
    \cup (IF t = "deals" THEN {[stage |-> "won"]} ELSE {})

\* the rows of d whose reference to row id of table t is null in d2
Nulled(d, d2, t, id) ==
  UNION {{r.id : r \in {x \in d[t2] :
                          \E c \in Columns(t2) :
                            /\ <<c, t>> \in ForeignKeys(t2)
                            /\ x[c] = id
                            /\ \E y \in d2[t2] : y.id = x.id /\ y[c] = NoId}} :
         t2 \in Tables}

\* what the caller gets back (count, error), with the request it answers and,
\* as history, the rows whose reference the request set to null
Response(op, u, t, id, res) ==
  [op |-> op, caller |-> u, table |-> t, id |-> id,
   count |-> res.count, error |-> res.error,
   nulled |-> IF op = "delete" THEN Nulled(db, res.db, t, id) ELSE {}]

\* history of who inserted which row, after a request by u answered res
Inserted(u, op, id, res) ==
  [i \in Ids |->
     IF op = "insert" /\ res.count = 1 /\ i = id THEN u
     ELSE IF \E t \in Tables : \E r \in res.db[t] : r.id = i THEN insertedBy[i]
     ELSE NULL]

ApiInsert(u, t, payload) ==
  /\ nextId <= MaxIds
  /\ LET res == Insert(db, u, t, payload, nextId, now)
     IN /\ db' = res.db
        /\ nextId' = nextId + res.count
        /\ insertedBy' = Inserted(u, "insert", nextId, res)
        /\ last' = Response("insert", u, t, IF res.count = 1 THEN nextId ELSE NoId, res)
  /\ UNCHANGED <<now, uiVars>>

ApiUpdate(u, t, id, patch) ==
  /\ LET res == Update(db, u, t, id, patch)
     IN /\ db' = res.db
        /\ insertedBy' = Inserted(u, "update", id, res)
        /\ last' = Response("update", u, t, id, res)
  /\ UNCHANGED <<nextId, now, uiVars>>

ApiDelete(u, t, id) ==
  /\ LET res == Delete(db, u, t, id)
     IN /\ db' = res.db
        /\ insertedBy' = Inserted(u, "delete", id, res)
        /\ last' = Response("delete", u, t, id, res)
  /\ UNCHANGED <<nextId, now, uiVars>>

ApiSelect(u, t) ==
  /\ last' = Response("select", u, t, NoId,
                      [db |-> db, count |-> Cardinality(Select(db, u, t)), error |-> "none"])
  /\ UNCHANGED <<db, nextId, now, insertedBy, uiVars>>

(* ------------------------------ screens ------------------------------- *)

Screens == {"Contacts", "Deals", "Tasks", "Activities"}

\* the signed-in user of the browser session: App renders a screen only
\* when useAuth().user is set, and the client sends that user's token
Session == "A"

TableOf(v) ==
  CASE v = "Contacts" -> "contacts"
    [] v = "Deals" -> "deals"
    [] v = "Tasks" -> "tasks"
    [] v = "Activities" -> "activities"

(* A text input holds a string.  A date, datetime-local, number or select   *)
(* input holds a string too, modelled as a sequence: <<>> is the empty      *)
(* string, <<d>> the date of day d, <<m>> the minute starting at instant m, *)
(* <<i>> the uuid i, and a number is the sequence of its characters.        *)

\* x || '' on a nullable text column
OrEmpty(x) == IF x = NULL THEN "" ELSE x

\* the timestamp a date string 'YYYY-MM-DD' is stored as (midnight), null for ''
DateValue(s) == IF s = <<>> THEN NoTime ELSE s[1] * DayLen

\* timestamp.split('T')[0], '' for null
DateString(ts) == IF ts = NoTime THEN <<>> ELSE <<ts \div DayLen>>

\* new Date().toISOString().slice(0, 16): the instant cut to its minute
MinuteString(ts) == <<(ts \div MinuteLen) * MinuteLen>>

\* formData.company_id || null
IdValue(s) == IF s = <<>> THEN NoId ELSE s[1]

\* row.company_id || ''
IdString(id) == IF id = NoId THEN <<>> ELSE <<id>>

DigitChars == <<"0", "1", "2", "3", "4", "5", "6", "7", "8", "9">>

IsDigit(c) == \E k \in 1..10 : DigitChars[k] = c

DigitValue(c) == (CHOOSE k \in 1..10 : DigitChars[k] = c) - 1

\* the number of leading digits of s
RECURSIVE LeadingDigits(_)
LeadingDigits(s) ==
  IF s = <<>> \/ ~IsDigit(Head(s)) THEN 0 ELSE 1 + LeadingDigits(Tail(s))

\* the value of the digit string s
RECURSIVE DigitsValue(_)
DigitsValue(s) ==
  IF s = <<>> THEN 0 ELSE 10 * DigitsValue(SubSeq(s, 1, Len(s) - 1)) + DigitValue(s[Len(s)])

\* parseInt(s): an optional sign, then digits up to the first other
\* character; NaN when there is no digit
ParseInt(s) ==
  LET neg == s # <<>> /\ Head(s) = "-"
      body == IF neg THEN Tail(s) ELSE s
      n == LeadingDigits(body)
  IN IF n = 0
       THEN [nan |-> TRUE, val |-> 0]
       ELSE [nan |-> FALSE,
             val |-> (IF neg THEN -1 ELSE 1) * DigitsValue(SubSeq(body, 1, n))]

\* parseFloat(s), on the strings without a fraction that the model types
ParseFloat(s) == ParseInt(s)

\* x || 0: NaN and 0 are falsy
OrZero(parsed) == IF parsed.nan THEN 0 ELSE parsed.val

\* n.toString() for n >= 0
RECURSIVE NatString(_)
NatString(n) ==
  IF n < 10 THEN <<DigitChars[n + 1]>> ELSE NatString(n \div 10) \o <<DigitChars[(n % 10) + 1]>>

\* n.toString()
NumberString(n) == IF n < 0 THEN <<"-">> \o NatString(-n) ELSE NatString(n)

\* the initial and reset value of the screen's formData
FormDefaults(v, time) ==
  CASE v = "Contacts" ->
         [first_name |-> "", last_name |-> "", email |-> "", company_id |-> <<>>]
    [] v = "Deals" ->
         [title |-> "", value |-> <<>>, stage |-> "lead", probability |-> <<"0">>,
          expected_close_date |-> <<>>, company_id |-> <<>>, contact_id |-> <<>>,
          notes |-> ""]
    [] v = "Tasks" ->
         [title |-> "", description |-> "", due_date |-> <<>>,
          priority |-> "medium", status |-> "pending"]
    [] v = "Activities" ->
         [type |-> "note", subject |-> "", description |-> "",
          activity_date |-> MinuteString(time)]

\* openModal(row): the form filled from the row
OpenModalForm(v, row) ==
  CASE v = "Contacts" ->
         [first_name |-> row.first_name, last_name |-> row.last_name,
          email |-> OrEmpty(row.email), company_id |-> IdString(row.company_id)]
    [] v = "Deals" ->
         [title |-> row.title, value |-> NumberString(row.value), stage |-> row.stage,
          probability |-> NumberString(row.probability),
          expected_close_date |-> DateString(row.expected_close_date),
          company_id |-> IdString(row.company_id),
          contact_id |-> IdString(row.contact_id),
          notes |-> OrEmpty(row.notes)]
    [] v = "Tasks" ->
         [title |-> row.title, description |-> OrEmpty(row.description),
          due_date |-> DateString(row.due_date),
          priority |-> row.priority, status |-> row.status]

\* contactData / dealData / taskData / formData: what handleSubmit sends
Payload(v, f, time) ==
  CASE v = "Contacts" ->
         [first_name |-> f.first_name, last_name |-> f.last_name, email |-> f.email,
          company_id |-> IdValue(f.company_id), updated_at |-> time]
    [] v = "Deals" ->
         [title |-> f.title, value |-> OrZero(ParseFloat(f.value)), stage |-> f.stage,
          probability |-> OrZero(ParseInt(f.probability)),
          expected_close_date |-> DateValue(f.expected_close_date),
          company_id |-> IdValue(f.company_id), contact_id |-> IdValue(f.contact_id),
          notes |-> f.notes, updated_at |-> time]
    [] v = "Tasks" ->
         [title |-> f.title, description |-> f.description,
          due_date |-> DateValue(f.due_date),
          priority |-> f.priority, status |-> f.status, updated_at |-> time]
    [] v = "Activities" ->
         [type |-> f.type, subject |-> f.subject, description |-> f.description,
          activity_date |-> f.activity_date[1]]

RECURSIVE Pow10(_)
Pow10(k) == IF k = 0 THEN 1 ELSE 10 * Pow10(k - 1)

AllDigits(s) == s # <<>> /\ \A i \in 1..Len(s) : IsDigit(s[i])

\* the number a type="number" input with the default step reads in the
\* string s: an optional sign, digits, an optional exponent ("e", optional
\* "-", digits); not valid when s is no such string or its value is not a
\* whole number (step mismatch)
NumberInput(s) ==
  LET neg == s # <<>> /\ Head(s) = "-"
      body == IF neg THEN Tail(s) ELSE s
      e == IF \E i \in 1..Len(body) : body[i] = "e"
             THEN CHOOSE i \in 1..Len(body) :
                    body[i] = "e" /\ \A j \in 1..(i - 1) : body[j] # "e"
             ELSE Len(body) + 1
      mantissa == SubSeq(body, 1, e - 1)
      exponent == SubSeq(body, e + 1, Len(body))
      down == exponent # <<>> /\ Head(exponent) = "-"
      power == IF down THEN Tail(exponent) ELSE exponent
      scale == Pow10(DigitsValue(power))
      m == (IF neg THEN -1 ELSE 1) * DigitsValue(mantissa)
  IN IF ~AllDigits(mantissa) \/ (e <= Len(body) /\ ~AllDigits(power))
       THEN [valid |-> FALSE, val |-> 0]
     ELSE IF e > Len(body) THEN [valid |-> TRUE, val |-> m]
     ELSE IF ~down THEN [valid |-> TRUE, val |-> m * scale]
     ELSE IF m % scale # 0 THEN [valid |-> FALSE, val |-> 0]
     ELSE [valid |-> TRUE, val |-> m \div scale]

\* min="0" max="100" on the probability input: an empty value passes
InRange(s, lo, hi) ==
  s = <<>> \/ (NumberInput(s).valid /\ NumberInput(s).val >= lo /\ NumberInput(s).val <= hi)

\* a form without constraint validation
FormNotValidated(v, f) == TRUE

\* the form's constraint validation (required, min, max): the browser fires
\* onSubmit only when it passes
FormValid(v, f) ==
  CASE v = "Contacts" -> f.first_name # "" /\ f.last_name # ""
    [] v = "Deals" -> f.title # "" /\ f.value # <<>> /\ InRange(f.probability, 0, 100)
    [] v = "Tasks" -> f.title # ""
    [] v = "Activities" -> f.subject # "" /\ f.activity_date # <<>>

(* ------------------------------ queries ------------------------------- *)

\* the rows of S as a list, in the strict total order Before
Ordered(S, Before(_, _)) ==
  [i \in 1..Cardinality(S) |->
     CHOOSE m \in S : Cardinality({o \in S : Before(o, m)}) = i - 1]

\* order('due_date', {ascending: true, nullsFirst: false}); equal keys by id
ByDueDate(a, b) ==
  \/ a.due_date # NoTime /\ (b.due_date = NoTime \/ a.due_date < b.due_date)
  \/ a.due_date = b.due_date /\ a.id < b.id

\* order('created_at', {ascending: false}); equal keys by id
ByCreatedDesc(a, b) ==
  a.created_at > b.created_at \/ (a.created_at = b.created_at /\ a.id < b.id)

\* order('activity_date', {ascending: false}); equal keys by id
ByActivityDateDesc(a, b) ==
  a.activity_date > b.activity_date \/ (a.activity_date = b.activity_date /\ a.id < b.id)

\* order('name') and order('first_name'); equal keys by id
ById(a, b) == a.id < b.id

\* company:companies(*): the referenced row as the caller may see it,
\* <<>> when there is none
Embedded(d, u, t, id) ==
  IF \E r \in Select(d, u, t) : r.id = id
    THEN <<CHOOSE r \in Select(d, u, t) : r.id = id>>
    ELSE <<>>

\* the list query of each screen, answered for caller u
ListQuery(d, u, v) ==
  CASE v = "Contacts" ->
         Ordered({r @@ [company |-> Embedded(d, u, "companies", r.company_id)] :
                    r \in Select(d, u, "contacts")}, ByCreatedDesc)
    [] v = "Deals" ->
         Ordered({r @@ [company |-> Embedded(d, u, "companies", r.company_id),
                        contact |-> Embedded(d, u, "contacts", r.contact_id)] :
                    r \in Select(d, u, "deals")}, ByCreatedDesc)
    [] v = "Tasks" -> Ordered(Select(d, u, "tasks"), ByDueDate)
    [] v = "Activities" -> Ordered(Select(d, u, "activities"), ByActivityDateDesc)

\* fetchCompanies / fetchContacts of the pickers
OptionsQuery(d, u, t) == Ordered(Select(d, u, t), ById)

\* the picker lists each screen fetches when it mounts
PickersOf(v) ==
  CASE v = "Contacts" -> {"companies"}
    [] v = "Deals" -> {"companies", "contacts"}
    [] OTHER -> {}

(* ------------------------ dashboard statistics ------------------------ *)

\* the tables fetchDashboardData queries
DashboardTables == {"contacts", "companies", "deals", "tasks", "activities"}

\* select('*') of deals and tasks returns the rows; select('id', {count:
\* 'exact', head: true}) of the other tables returns only their number
DashboardQuery(d, u, t) ==
  IF t \in {"deals", "tasks"}
    THEN [data |-> OptionsQuery(d, u, t), count |-> 0]
    ELSE [data |-> <<>>, count |-> Cardinality(Select(d, u, t))]

\* the initial stats state
StatsInit ==
  [totalContacts |-> 0, totalCompanies |-> 0, totalDeals |-> 0, totalDealValue |-> 0,
   activeTasks |-> 0, overdueTasks |-> 0, recentActivities |-> 0]

\* {} as Record<string, number>
NoCounts == [s \in {} |-> 0]

\* the value of the first deal only
TotalValueOfFirst(deals) == IF deals = <<>> THEN 0 ELSE deals[1].value

\* deals.reduce((sum, deal) => sum + deal.value, 0)
RECURSIVE TotalValue(_)
TotalValue(deals) ==
  IF deals = <<>> THEN 0
  ELSE TotalValue(SubSeq(deals, 1, Len(deals) - 1)) + deals[Len(deals)].value

\* deals.reduce((acc, deal) => {acc[deal.stage] = (acc[deal.stage] || 0) + 1;
\* return acc}, {})
RECURSIVE StageCount(_)
StageCount(deals) ==
  IF deals = <<>> THEN NoCounts
  ELSE LET acc == StageCount(SubSeq(deals, 1, Len(deals) - 1))
           stage == deals[Len(deals)].stage
       IN [s \in DOMAIN acc \cup {stage} |->
             (IF s \in DOMAIN acc THEN acc[s] ELSE 0) + (IF s = stage THEN 1 ELSE 0)]

\* t.status === 'pending' || t.status === 'in_progress'
IsActive(task) == task.status = "pending" \/ task.status = "in_progress"

\* tasks.filter(active).length
ActiveTasks(tasks) == Cardinality({i \in 1..Len(tasks) : IsActive(tasks[i])})

\* past its due date, whatever its status
IsOverdueAnyStatus(task, time) == task.due_date # NoTime /\ task.due_date < time

\* active && t.due_date && new Date(t.due_date) < new Date()
IsOverdueActive(task, time) ==
  IsActive(task) /\ task.due_date # NoTime /\ task.due_date < time

\* tasks.filter(overdue).length
OverdueTasks(tasks, time) ==
  Cardinality({i \in 1..Len(tasks) : IsOverdueActive(tasks[i], time)})

(* ------------------------------ rendering ----------------------------- *)

\* num / den rounded down
MathFloor(num, den) == num \div den

\* Math.round(num / den) for num >= 0, den > 0: halves round up
MathRound(num, den) == (2 * num + den) \div (2 * den)

\* the Task Completion Rate the Dashboard renders, in percent
CompletionRate(s) ==
  IF s.activeTasks + s.overdueTasks > 0
    THEN MathRound(s.activeTasks * 100, s.activeTasks + s.overdueTasks)
    ELSE 0

\* isOverdue(dueDate) of the Tasks screen, evaluated at render time
isOverdue(dueDate, time) == IF dueDate = NoTime THEN FALSE ELSE dueDate < time

\* the red date and the alert icon of a task card
OverdueBadge(task, time) == task.due_date # NoTime /\ isOverdue(task.due_date, time)

(* ------------------------------ messages ------------------------------ *)

\* a request as the screen sends it: op on table (row id, payload), started
\* by origin; a select fills the state named by target
Request(op, origin, target, t, id, payload) ==
  [stage |-> "request", op |-> op, origin |-> origin, target |-> target,
   table |-> t, id |-> id, payload |-> payload, error |-> "none", data |-> <<>>,
   count |-> 0]

\* fetchTasks / fetchContacts / fetchDeals / fetchActivities
FetchList(v) == Request("select", "fetch", "list", TableOf(v), NoId, <<>>)

\* fetchCompanies / fetchContacts of the pickers
FetchOptions(t) == Request("select", "fetch", t, t, NoId, <<>>)

Send(m) == net (+) SetToBag({m})

Replace(m, m2) == (net (-) SetToBag({m})) (+) SetToBag({m2})

Take(m) == net (-) SetToBag({m})

ListIds == {list[i].id : i \in 1..Len(list)}

ListRow(id) == list[CHOOSE i \in 1..Len(list) : list[i].id = id]

(* ------------------------------ handlers ------------------------------ *)

\* one more click or form edit of the user
Click == clicks < MaxClicks /\ clicks' = clicks + 1

\* few enough requests are in flight for the user to start another
MaySend == BagCardinality(net) < MaxInflight

\* openModal(row) / openModal() / setIsModalOpen(true): behind the modal's
\* overlay and behind "Loading..." no button can be clicked
OpenModal(id) ==
  /\ Click
  /\ view \in Screens
  /\ ~loading /\ ~isModalOpen
  /\ IF id = NoId
       THEN /\ editing' = NoId
            /\ formData' = IF view = "Activities" THEN formData ELSE FormDefaults(view, now)
       ELSE /\ view # "Activities"
            /\ id \in ListIds
            /\ editing' = id
            /\ formData' = OpenModalForm(view, ListRow(id))
  /\ isModalOpen' = TRUE
  /\ blocked' = FALSE
  /\ UNCHANGED <<storeVars, dashVars, view, list, options, loading, net>>

\* the texts the user may type into an open form
FormInputs(v) ==
  CASE v = "Contacts" ->
         {[first_name |-> "x", last_name |-> "x", email |-> e, company_id |-> c] :
            e \in {"", "e"},
            c \in {<<>>} \cup {<<options.companies[i].id>> : i \in 1..Len(options.companies)}}
    [] v = "Deals" ->
         {[title |-> "x", value |-> <<"7">>, stage |-> "lead", probability |-> p,
           expected_close_date |-> <<>>, company_id |-> <<>>, contact_id |-> <<>>,
           notes |-> ""] :
            p \in {<<>>, <<"5", "0">>, <<"1", "5", "0">>, <<"-", "5">>,
                   <<"1", "0", "0", "0", "e", "-", "1">>}}
    [] v = "Tasks" ->
         {[title |-> "x", description |-> "", due_date |-> <<>>,
           priority |-> "medium", status |-> "pending"],
          [title |-> "x", description |-> "d", due_date |-> <<0>>,
           priority |-> "high", status |-> "in_progress"]}
    [] v = "Activities" ->
         {[type |-> "call", subject |-> "x", description |-> "",
           activity_date |-> formData.activity_date]}

\* onChange of the form's inputs
Type(f) ==
  /\ Click
  /\ isModalOpen
  /\ f # formData
  /\ formData' = f
  /\ blocked' = FALSE
  /\ UNCHANGED <<storeVars, dashVars, view, list, options, loading, isModalOpen, editing,
                 net>>

\* handleSubmit up to its await: the request is built from the form, the
\* clock and the editing selection of this moment
HandleSubmit ==
  /\ Click /\ MaySend
  /\ isModalOpen
  /\ FormValid(view, formData)
  /\ net' = Send(IF editing # NoId
                   THEN Request("update", "submit", "list", TableOf(view), editing,
                                Payload(view, formData, now))
                   ELSE Request("insert", "submit", "list", TableOf(view), NoId,
                                Payload(view, formData, now)))
  /\ blocked' = FALSE
  /\ UNCHANGED <<storeVars, dashVars, view, list, options, loading, isModalOpen, editing,
                 formData>>

\* the submit button on a form that fails validation: no submit event
SubmitBlocked ==
  /\ Click
  /\ isModalOpen
  /\ ~FormValid(view, formData)
  /\ blocked' = TRUE
  /\ UNCHANGED <<storeVars, dashVars, view, list, options, loading, isModalOpen, editing,
                 formData, net>>

\* the Cancel button: setIsModalOpen(false); resetForm()
Cancel ==
  /\ Click
  /\ isModalOpen
  /\ isModalOpen' = FALSE
  /\ formData' = FormDefaults(view, now)
  /\ editing' = NoId
  /\ blocked' = FALSE
  /\ UNCHANGED <<storeVars, dashVars, view, list, options, loading, net>>

\* a delete sent whatever the user answers
HandleDeleteUnasked(id, confirmed) ==
  /\ Click /\ MaySend
  /\ view \in {"Contacts", "Deals", "Tasks"}
  /\ ~loading /\ ~isModalOpen
  /\ id \in ListIds
  /\ net' = Send(Request("delete", "delete", "list", TableOf(view), id, <<>>))
  /\ UNCHANGED <<storeVars, dashVars, view, list, options, loading, isModalOpen, editing,
                 formData, blocked>>

\* handleDelete(id) up to its await
HandleDelete(id, confirmed) ==
  /\ Click /\ (confirmed => MaySend)
  /\ view \in {"Contacts", "Deals", "Tasks"}
  /\ ~loading /\ ~isModalOpen
  /\ id \in ListIds
  /\ net' = IF confirmed
              THEN Send(Request("delete", "delete", "list", TableOf(view), id, <<>>))
              ELSE net
  /\ UNCHANGED <<storeVars, dashVars, view, list, options, loading, isModalOpen, editing,
                 formData, blocked>>

\* the stages the user picks in a deal's select
StageInputs == {"qualified", "closed_won"}

\* the transitions the rendered row offers: Start and Complete on a task
\* that is not completed, every other stage in the select of a deal
Offered(row) ==
  CASE view = "Tasks" ->
         IF row.status = "completed" THEN {}
         ELSE IF row.status = "pending" THEN {"in_progress", "completed"}
         ELSE {"completed"}
    [] view = "Deals" -> DEAL_STAGES \ {row.stage}
    [] OTHER -> {}

\* a quick transition that writes back the whole displayed row
QuickTransitionWholeRow(id, value) ==
  /\ Click /\ MaySend
  /\ view \in {"Tasks", "Deals"}
  /\ ~loading /\ ~isModalOpen
  /\ id \in ListIds
  /\ value \in Offered(ListRow(id))
  /\ net' = Send(Request("update", "quick", "list", TableOf(view), id,
                         IF view = "Tasks"
                           THEN [ListRow(id) EXCEPT !.status = value, !.updated_at = now]
                           ELSE [ListRow(id) EXCEPT !.stage = value, !.updated_at = now]))
  /\ UNCHANGED <<storeVars, dashVars, view, list, options, loading, isModalOpen, editing,
                 formData, blocked>>

\* updateTaskStatus(id, newStatus) / updateDealStage(id, newStage) up to
\* the await
QuickTransition(id, value) ==
  /\ Click /\ MaySend
  /\ view \in {"Tasks", "Deals"}
  /\ ~loading /\ ~isModalOpen
  /\ id \in ListIds
  /\ value \in Offered(ListRow(id))
  /\ net' = Send(Request("update", "quick", "list", TableOf(view), id,
                         IF view = "Tasks"
                           THEN [status |-> value, updated_at |-> now]
                           ELSE [stage |-> value, updated_at |-> now]))
  /\ UNCHANGED <<storeVars, dashVars, view, list, options, loading, isModalOpen, editing,
                 formData, blocked>>

(* -------------------------- store and network ------------------------- *)

\* the store answers a request of the session
StoreProcess(m) ==
  /\ m \in BagToSet(net)
  /\ m.stage = "request"
  /\ LET res ==
           CASE m.op = "insert" -> Insert(db, Session, m.table, m.payload, nextId, now)
             [] m.op = "update" -> Update(db, Session, m.table, m.id, m.payload)
             [] m.op = "delete" -> Delete(db, Session, m.table, m.id)
             [] m.op = "select" ->
                  [db |-> db, count |-> Cardinality(Select(db, Session, m.table)),
                   error |-> "none"]
         data ==
           IF m.op # "select" THEN <<>>
           ELSE IF m.origin = "dashboard" THEN DashboardQuery(db, Session, m.table).data
           ELSE IF m.target = "list" THEN ListQuery(db, Session, view)
           ELSE OptionsQuery(db, Session, m.table)
         count ==
           IF m.origin = "dashboard" THEN DashboardQuery(db, Session, m.table).count
           ELSE 0
         id == IF m.op = "insert" THEN (IF res.count = 1 THEN nextId ELSE NoId) ELSE m.id
     IN /\ res.count = 1 /\ m.op = "insert" => nextId <= MaxIds
        /\ db' = res.db
        /\ nextId' = IF m.op = "insert" THEN nextId + res.count ELSE nextId
        /\ insertedBy' = Inserted(Session, m.op, id, res)
        /\ last' = IF m.op = "select" THEN last
                   ELSE Response(m.op, Session, m.table, id, res)
        /\ net' = Replace(m, [m EXCEPT !.stage = "response", !.error = res.error,
                                       !.data = data, !.count = count])
  /\ UNCHANGED <<now, dashVars, view, list, options, loading, isModalOpen, editing,
                 formData, blocked, clicks>>

\* a request is lost on the way: the client reports an error, the store
\* never sees it
NetworkError(m) ==
  /\ m \in BagToSet(net)
  /\ m.stage = "request"
  /\ net' = Replace(m, [m EXCEPT !.stage = "response", !.error = "network"])
  /\ UNCHANGED <<storeVars, dashVars, view, list, options, loading, isModalOpen, editing,
                 formData, blocked, clicks>>

\* a fetch that stores data || [] without reading the error
FetchDoneUnchecked(m) ==
  /\ m \in BagToSet(net)
  /\ m.stage = "response" /\ m.origin = "fetch"
  /\ list' = IF m.target = "list" THEN m.data ELSE list
  /\ options' = IF m.target # "list" THEN [options EXCEPT ![m.target] = m.data]
                ELSE options
  /\ loading' = IF m.target = "list" THEN FALSE ELSE loading
  /\ net' = Take(m)
  /\ UNCHANGED <<storeVars, dashVars, view, isModalOpen, editing, formData, blocked,
                 clicks>>

\* the rest of fetchX after its await: setX(data) unless error; the list
\* fetch ends with setLoading(false)
FetchDone(m) ==
  /\ m \in BagToSet(net)
  /\ m.stage = "response" /\ m.origin = "fetch"
  /\ list' = IF m.target = "list" /\ m.error = "none" THEN m.data ELSE list
  /\ options' = IF m.target # "list" /\ m.error = "none"
                  THEN [options EXCEPT ![m.target] = m.data]
                  ELSE options
  /\ loading' = IF m.target = "list" THEN FALSE ELSE loading
  /\ net' = Take(m)
  /\ UNCHANGED <<storeVars, dashVars, view, isModalOpen, editing, formData, blocked,
                 clicks>>

\* a handleSubmit that does not refetch after a successful submission
SubmitDoneNoRefetch(m) ==
  /\ m \in BagToSet(net)
  /\ m.stage = "response" /\ m.origin = "submit"
  /\ IF m.error = "none"
       THEN /\ isModalOpen' = FALSE
            /\ editing' = NoId
            /\ formData' = FormDefaults(view, now)
            /\ blocked' = FALSE
       ELSE UNCHANGED <<isModalOpen, editing, formData, blocked>>
  /\ net' = Take(m)
  /\ UNCHANGED <<storeVars, dashVars, view, list, options, loading, clicks>>

\* the rest of handleSubmit after its await: on success close the modal,
\* clear the selection, reset the form and refetch; on error only log
SubmitDone(m) ==
  /\ m \in BagToSet(net)
  /\ m.stage = "response" /\ m.origin = "submit"
  /\ IF m.error = "none"
       THEN /\ isModalOpen' = FALSE
            /\ editing' = NoId
            /\ formData' = FormDefaults(view, now)
            /\ blocked' = FALSE
            /\ net' = Replace(m, FetchList(view))
       ELSE /\ net' = Take(m)
            /\ UNCHANGED <<isModalOpen, editing, formData, blocked>>
  /\ UNCHANGED <<storeVars, dashVars, view, list, options, loading, clicks>>

\* the rest of handleDelete / updateTaskStatus / updateDealStage after the
\* await: refetch on success, only log on error
MutationDone(m) ==
  /\ m \in BagToSet(net)
  /\ m.stage = "response" /\ m.origin \in {"delete", "quick"}
  /\ net' = IF m.error = "none" THEN Replace(m, FetchList(view)) ELSE Take(m)
  /\ UNCHANGED <<storeVars, dashVars, view, list, options, loading, isModalOpen, editing,
                 formData, blocked, clicks>>

(* ------------------------ the Dashboard's fetch ----------------------- *)

\* one of the five queries of fetchDashboardData
FetchDashboard(t) == Request("select", "dashboard", t, t, NoId, <<>>)

\* the result of the query of table t, once all five have settled
DashboardResult(t) ==
  CHOOSE m \in BagToSet(net) : m.origin = "dashboard" /\ m.table = t

\* result.data || []: a failed query has no data
DataOf(m) == IF m.error = "none" THEN m.data ELSE <<>>

\* result.count || 0: a failed query has no count
CountOf(m) == IF m.error = "none" THEN m.count ELSE 0

\* the statistics fetchDashboardData computes from the five results at the
\* instant time
ComputedStats(contacts, companies, deals, tasks, activities, time) ==
  [totalContacts |-> CountOf(contacts),
   totalCompanies |-> CountOf(companies),
   totalDeals |-> Len(DataOf(deals)),
   totalDealValue |-> TotalValue(DataOf(deals)),
   activeTasks |-> ActiveTasks(DataOf(tasks)),
   overdueTasks |-> OverdueTasks(DataOf(tasks), time),
   recentActivities |-> CountOf(activities)]

\* fetchDashboardData after Promise.all: the client resolves every query,
\* a failed one with an error in its result, and no result's error is
\* read; the statistics are computed and stored, then setLoading(false)
DashboardDone ==
  /\ view = "Dashboard"
  /\ \A t \in DashboardTables :
       \E m \in BagToSet(net) :
         m.origin = "dashboard" /\ m.table = t /\ m.stage = "response"
  /\ stats' = ComputedStats(DashboardResult("contacts"), DashboardResult("companies"),
                            DashboardResult("deals"), DashboardResult("tasks"),
                            DashboardResult("activities"), now)
  /\ dealsByStage' = StageCount(DataOf(DashboardResult("deals")))
  /\ loading' = FALSE
  /\ net' = net (-) SetToBag({DashboardResult(t) : t \in DashboardTables})
  /\ UNCHANGED <<storeVars, view, list, options, isModalOpen, editing, formData, blocked,
                 clicks>>

(* ------------------- rows present when a screen mounts ---------------- *)

\* rows authenticated clients have inserted, as their own, into the tables
\* the mounted screen reads
SeedPayloads(t) ==
  CASE t = "companies" -> {[name |-> "x", user_id |-> Session]}
    [] t = "contacts" ->
         {[first_name |-> "x", last_name |-> "x", user_id |-> o] : o \in Users}
    [] t = "deals" ->
         {[title |-> "x", probability |-> 150, user_id |-> Session]}
           \cup {[title |-> "x", user_id |-> o] : o \in Users}
    [] t = "tasks" ->
         {[title |-> "x", status |-> "completed", due_date |-> 0, user_id |-> Session]}
           \cup {[title |-> "x", due_date |-> 0, user_id |-> o] : o \in Users}
    [] t = "activities" ->
         {[type |-> "note", subject |-> "x", user_id |-> o] : o \in Users}

SeedTables(v) == {TableOf(v)} \cup (PickersOf(v) \cap {"companies"})

\* rows of every table the Dashboard counts
DashboardSeeds ==
  {<<"deals", [title |-> "x", value |-> 1000, stage |-> "lead", user_id |-> Session]>>,
   <<"deals", [title |-> "x", value |-> 2000, stage |-> "qualified", user_id |-> Session]>>,
   <<"deals", [title |-> "x", value |-> 2000, stage |-> "lead", user_id |-> "B"]>>,
   <<"tasks", [title |-> "x", status |-> "pending", due_date |-> 0, user_id |-> Session]>>,
   <<"tasks", [title |-> "x", status |-> "in_progress", user_id |-> Session]>>,
   <<"tasks", [title |-> "x", status |-> "completed", due_date |-> 0, user_id |-> Session]>>,
   <<"contacts", [first_name |-> "x", last_name |-> "x", user_id |-> Session]>>,
   <<"companies", [name |-> "x", user_id |-> "B"]>>,
   <<"activities", [type |-> "note", subject |-> "x", user_id |-> Session]>>}

\* an activity logged on the first contact
LoggedOnContact ==
  <<"activities", [type |-> "note", subject |-> "x", contact_id |-> 1, user_id |-> Session]>>

Seeds(v) ==
  IF v = "Dashboard" THEN DashboardSeeds
  ELSE UNION {{<<t, p>> : p \in SeedPayloads(t)} : t \in SeedTables(v)}
         \cup (IF v = "Contacts" THEN {LoggedOnContact} ELSE {})

\* the store s after one more insert, by the payload's owner, at time 0
SeedStep(s, t, p) ==
  LET res == Insert(s.db, p.user_id, t, p, s.nextId, 0)
  IN [db |-> res.db,
      nextId |-> s.nextId + res.count,
      insertedBy |-> IF res.count = 1
                       THEN [s.insertedBy EXCEPT ![s.nextId] = p.user_id]
                       ELSE s.insertedBy]

\* the stores that up to n such inserts produce from the empty store
RECURSIVE Seeded(_, _)
Seeded(v, n) ==
  IF n = 0
    THEN {[db |-> [t \in Tables |-> {}], nextId |-> 1,
           insertedBy |-> [i \in Ids |-> NULL]]}
    ELSE LET S == Seeded(v, n - 1)
         IN S \cup {SeedStep(s, x[1], x[2]) : s \in S, x \in Seeds(v)}

(* --------------------------- specification ---------------------------- *)

NoResponse ==
  [op |-> "none", caller |-> NULL, table |-> NULL, id |-> NoId,
   count |-> 0, error |-> "none", nulled |-> {}]

\* the store before any request
StoreInit ==
  /\ db = [t \in Tables |-> {}]
  /\ nextId = 1
  /\ now = 0
  /\ insertedBy = [i \in Ids |-> NULL]
  /\ last = NoResponse

\* no screen mounted
NoScreen ==
  /\ view = "none"
  /\ list = <<>>
  /\ options = [companies |-> <<>>, contacts |-> <<>>]
  /\ loading = FALSE
  /\ isModalOpen = FALSE
  /\ editing = NoId
  /\ formData = <<>>
  /\ blocked = FALSE
  /\ net = EmptyBag
  /\ clicks = 0
  /\ stats = StatsInit
  /\ dealsByStage = NoCounts

\* a screen as useState and useEffect leave it, mounted at the instant
\* time: empty list, loading, the form at its defaults, the mount fetches
\* in flight
Mounted(v, time) ==
  /\ view = v
  /\ list = <<>>
  /\ options = [companies |-> <<>>, contacts |-> <<>>]
  /\ loading = TRUE
  /\ isModalOpen = FALSE
  /\ editing = NoId
  /\ formData = FormDefaults(v, time)
  /\ blocked = FALSE
  /\ net = SetToBag({FetchList(v)} \cup {FetchOptions(t) : t \in PickersOf(v)})
  /\ clicks = 0
  /\ stats = StatsInit
  /\ dealsByStage = NoCounts

\* the Dashboard as useState and useEffect leave it: zero statistics,
\* loading, the five queries in flight
MountedDashboard ==
  /\ view = "Dashboard"
  /\ list = <<>>
  /\ options = [companies |-> <<>>, contacts |-> <<>>]
  /\ loading = TRUE
  /\ isModalOpen = FALSE
  /\ editing = NoId
  /\ formData = <<>>
  /\ blocked = FALSE
  /\ net = SetToBag({FetchDashboard(t) : t \in DashboardTables})
  /\ clicks = 0
  /\ stats = StatsInit
  /\ dealsByStage = NoCounts

InitStore == StoreInit /\ NoScreen

NextStore ==
  \/ \E u \in Users, t \in Tables : \E p \in ApiPayloads(t) : ApiInsert(u, t, p)
  \/ \E u \in Users, t \in Tables, id \in IssuedIds :
       \E p \in ApiPatches(t) : ApiUpdate(u, t, id, p)
  \/ \E u \in Users, t \in Tables, id \in IssuedIds : ApiDelete(u, t, id)
  \/ \E u \in Users, t \in Tables : ApiSelect(u, t)

\* the store under requests of any authenticated client
SpecStore == InitStore /\ [][NextStore]_vars

\* a screen mounts, at some instant, over a store that holds rows of
\* earlier sessions
Init ==
  /\ now \in Times
  /\ \E v \in Screens :
       /\ Mounted(v, now)
       /\ \E s \in Seeded(v, MaxIds) :
            db = s.db /\ nextId = s.nextId /\ insertedBy = s.insertedBy
  /\ last = NoResponse

Next ==
  \/ \E id \in ListIds \cup {NoId} : OpenModal(id)
  \/ \E f \in FormInputs(view) : Type(f)
  \/ HandleSubmit
  \/ SubmitBlocked
  \/ Cancel
  \/ \E id \in ListIds, confirmed \in BOOLEAN : HandleDelete(id, confirmed)
  \/ \E id \in ListIds, value \in StageInputs \cup STATUSES : QuickTransition(id, value)
  \/ \E m \in BagToSet(net) : StoreProcess(m)
  \/ \E m \in BagToSet(net) : FetchDone(m)
  \/ \E m \in BagToSet(net) : SubmitDone(m)
  \/ \E m \in BagToSet(net) : MutationDone(m)

\* one mounted screen of the session and the store behind it
Spec == Init /\ [][Next]_vars

\* the same, over a network that may lose requests
SpecLossy == Init /\ [][Next \/ \E m \in BagToSet(net) : NetworkError(m)]_vars

\* a second tab of the same session completes a task it shows: its
\* updateTaskStatus(id, 'completed') up to the await
OtherTabTransition(id) ==
  /\ MaySend
  /\ view = "Tasks"
  /\ \A m \in BagToSet(net) : m.origin # "tab2"
  /\ \E r \in Select(db, Session, "tasks") : r.id = id /\ r.status # "completed"
  /\ net' = Send(Request("update", "tab2", "list", "tasks", id,
                         [status |-> "completed", updated_at |-> now]))
  /\ UNCHANGED <<storeVars, dashVars, view, list, options, loading, isModalOpen, editing,
                 formData, blocked, clicks>>

\* the second tab takes up the answer (its own refetch does not concern
\* this tab)
OtherTabDone(m) ==
  /\ m \in BagToSet(net)
  /\ m.stage = "response" /\ m.origin = "tab2"
  /\ net' = Take(m)
  /\ UNCHANGED <<storeVars, dashVars, view, list, options, loading, isModalOpen, editing,
                 formData, blocked, clicks>>

\* the Tasks screen mounts
InitTabs == Init /\ view = "Tasks"

NextTabs ==
  \/ Next
  \/ \E id \in Ids : OtherTabTransition(id)
  \/ \E m \in BagToSet(net) : OtherTabDone(m)

\* the Tasks screen in one tab while a second tab of the same session
\* completes tasks
SpecTabs == InitTabs /\ [][NextTabs]_vars

\* an answer to the tasks query with active tasks, of which the first
\* overdue ones were due at instant 0
TaskList(active, overdue) ==
  [i \in 1..active |->
     NewRow("tasks", [title |-> "x", user_id |-> Session,
                      due_date |-> IF i <= overdue THEN 0 ELSE NoTime], i, 0)]

\* the answered query of table t of the Dashboard, with the given rows
Answered(t, rows) ==
  [FetchDashboard(t) EXCEPT !.stage = "response", !.data = rows]

\* the smaller of two numbers
Least(a, b) == IF a <= b THEN a ELSE b

\* the Dashboard after its five queries were answered, the tasks query
\* with up to MaxTasks active tasks of which up to MaxOverdue were due
InitRate ==
  /\ now \in Times
  /\ view = "Dashboard"
  /\ list = <<>>
  /\ options = [companies |-> <<>>, contacts |-> <<>>]
  /\ loading = TRUE
  /\ isModalOpen = FALSE
  /\ editing = NoId
  /\ formData = <<>>
  /\ blocked = FALSE
  /\ clicks = 0
  /\ stats = StatsInit
  /\ dealsByStage = NoCounts
  /\ \E active \in 0..MaxTasks : \E overdue \in 0..Least(active, MaxOverdue) :
       net = SetToBag({Answered(t, IF t = "tasks" THEN TaskList(active, overdue)
                                   ELSE <<>>) : t \in DashboardTables})
  /\ db = [t \in Tables |-> {}]
  /\ nextId = 1
  /\ insertedBy = [i \in Ids |-> NULL]
  /\ last = NoResponse

\* the Dashboard computes and renders its statistics
SpecRate == InitRate /\ [][DashboardDone]_vars

\* the clock advances by one instant
Tick ==
  /\ now < MaxTime
  /\ now' = now + 1
  /\ UNCHANGED <<db, nextId, insertedBy, last, uiVars>>

\* the Activities screen mounts
InitActivities == Init /\ view = "Activities"

\* the events of the Activities screen, which has no edit, delete or quick
\* transition, and the passing of time
NextActivities ==
  \/ OpenModal(NoId)
  \/ \E f \in FormInputs(view) : Type(f)
  \/ HandleSubmit
  \/ SubmitBlocked
  \/ Cancel
  \/ \E m \in BagToSet(net) : StoreProcess(m)
  \/ \E m \in BagToSet(net) : FetchDone(m)
  \/ \E m \in BagToSet(net) : SubmitDone(m)
  \/ Tick

\* the mounted Activities screen and the store behind it, as time passes
SpecActivities == InitActivities /\ [][NextActivities]_vars

\* the Dashboard mounts, at some instant, over a store that holds rows of
\* earlier sessions
InitDashboard ==
  /\ now \in Times
  /\ MountedDashboard
  /\ \E s \in Seeded("Dashboard", MaxIds) :
       db = s.db /\ nextId = s.nextId /\ insertedBy = s.insertedBy
  /\ last = NoResponse

NextDashboard ==
  \/ \E m \in BagToSet(net) : StoreProcess(m)
  \/ \E m \in BagToSet(net) : NetworkError(m)
  \/ DashboardDone

\* the mounted Dashboard and the store behind it, over a network that may
\* lose requests
SpecDashboard == InitDashboard /\ [][NextDashboard]_vars

\* the create form after the user filled in its required inputs
FilledForm(v, time) ==
  CASE v = "Contacts" ->
         [FormDefaults(v, time) EXCEPT !.first_name = "x", !.last_name = "x"]
    [] v = "Deals" -> [FormDefaults(v, time) EXCEPT !.title = "x", !.value = <<"7">>]
    [] v = "Tasks" -> [FormDefaults(v, time) EXCEPT !.title = "x"]
    [] v = "Activities" -> [FormDefaults(v, time) EXCEPT !.subject = "x"]

\* a screen whose mount fetches were answered, with the create form open
\* and filled in, over a store that holds rows of earlier sessions
InitCreate ==
  /\ now \in Times
  /\ \E v \in Screens :
       /\ view = v
       /\ \E s \in Seeded(v, MaxIds) :
            db = s.db /\ nextId = s.nextId /\ insertedBy = s.insertedBy
       /\ list = ListQuery(db, Session, v)
       /\ options = [t \in {"companies", "contacts"} |->
                       IF t \in PickersOf(v) THEN OptionsQuery(db, Session, t) ELSE <<>>]
       /\ formData = FilledForm(v, now)
  /\ last = NoResponse
  /\ loading = FALSE
  /\ isModalOpen = TRUE
  /\ editing = NoId
  /\ blocked = FALSE
  /\ net = EmptyBag
  /\ clicks = 0
  /\ stats = StatsInit
  /\ dealsByStage = NoCounts

\* one mounted screen from the moment its create form is filled in
SpecCreate == InitCreate /\ [][Next]_vars

\* deals.filter((deal) => deal.stage === stage)
getDealsByStage(deals, stage) == SelectSeq(deals, LAMBDA deal : deal.stage = stage)

\* deals.reduce((sum, deal) => sum + deal.value, 0) of the board's header
getTotalValue(deals) == TotalValue(deals)

\* the store d after the session's user, calling the API, wrote the stage
\* 'won' into the deals with the ids of W
RECURSIVE StagesWritten(_, _)
StagesWritten(d, W) ==
  IF W = {} THEN d
  ELSE LET id == CHOOSE i \in W : TRUE
       IN StagesWritten(Update(d, Session, "deals", id, [stage |-> "won"]).db, W \ {id})

\* the Deals screen mounts over a store that holds rows of earlier
\* sessions, some of them with a stage written through the API
InitBoard ==
  /\ now \in Times
  /\ Mounted("Deals", now)
  /\ \E s \in Seeded("Deals", MaxIds), W \in SUBSET Ids :
       db = StagesWritten(s.db, W) /\ nextId = s.nextId /\ insertedBy = s.insertedBy
  /\ last = NoResponse

\* the Deals screen and the store behind it
SpecBoard == InitBoard /\ [][Next]_vars

(* ------------------------------ claims -------------------------------- *)

OwnedBy(u, t) == {r \in db[t] : r.user_id = u}

\* C1: a select on any of the five tables by user u returns only rows whose
\* user_id is u, and all of them; a user who owns no row of the table gets
\* an empty list even while other users' rows exist in it.
C1_SelectReturnsOwnRowsOnly ==
  /\ \A u \in Users, t \in Tables :
       /\ \A r \in Select(db, u, t) : r.user_id = u
       /\ OwnedBy(u, t) = {} => Select(db, u, t) = {}
  /\ last.op = "select" => last.count = Cardinality(OwnedBy(last.caller, last.table))

\* C1 witness: a user owning no row of a table has selected from it and got
\* nothing, while the table holds another user's rows.
C1_Witness ==
  /\ last.op = "select"
  /\ last.count = 0
  /\ db[last.table] # {}
  /\ OwnedBy(last.caller, last.table) = {}

\* the answer to an update or delete that matches no row
NotFound == [db |-> db, count |-> 0, error |-> "none"]

\* row id of table t exists and belongs to another user than u
Foreign(u, t, id) == \E r \in db[t] : r.id = id /\ r.user_id # u

\* no row of table t has this id
Absent(t, id) == \A r \in db[t] : r.id # id

\* C2: an update-by-id or delete-by-id by user u against a row owned by
\* another user leaves the store unchanged, affects zero rows and returns no
\* error: the same outcome as the same call against an id that does not exist.
C2_ForeignRowLooksAbsent ==
  /\ \A u \in Users, t \in Tables :
       \A id \in Ids, id2 \in Ids \cup {MaxIds + 1} :
         Foreign(u, t, id) /\ Absent(t, id2) =>
           /\ Delete(db, u, t, id) = NotFound
           /\ Delete(db, u, t, id2) = Delete(db, u, t, id)
           /\ \A p \in ApiPatches(t) :
                /\ Update(db, u, t, id, p) = NotFound
                /\ Update(db, u, t, id2, p) = Update(db, u, t, id, p)
  /\ (last.op \in {"update", "delete"} /\ Foreign(last.caller, last.table, last.id)) =>
       last.count = 0 /\ last.error = "none"

\* C2 witness: the store has just answered an update or delete aimed at
\* another user's row.
C2_Witness ==
  /\ last.op \in {"update", "delete"}
  /\ Foreign(last.caller, last.table, last.id)
  /\ last.count = 0

\* C3: every stored row's user_id is the authenticated user who inserted it:
\* an insert with another user_id is rejected and stores nothing, and no
\* update moves a row to another user.
C3_RowOwnedByItsInserter ==
  /\ \A t \in Tables : \A r \in db[t] : r.user_id \in Users /\ r.user_id = insertedBy[r.id]
  /\ \A u \in Users, t \in Tables :
       /\ \A p \in ApiPayloads(t) :
            p.user_id # u =>
              LET res == Insert(db, u, t, p, nextId, now)
              IN res.db = db /\ res.count = 0 /\ res.error # "none"
       /\ \A id \in Ids, o \in Users \ {u} :
            Update(db, u, t, id, [user_id |-> o]).db = db
  /\ last.error = "rls" => last.count = 0

\* C3 witness: an update that tried to give a row to another user has been
\* rejected by the WITH CHECK policy.
C3_Witness ==
  /\ last.op = "update"
  /\ last.error = "rls"
  /\ \E r \in db[last.table] : r.id = last.id /\ r.user_id = last.caller

\* C5 (as claimed): every non-null foreign key points to an existing row
\* whose user_id equals the user_id of the referencing row.
C5_ReferencesStayWithinOwner ==
  \A t \in Tables : \A r \in db[t] : \A fk \in ForeignKeys(t) :
    r[fk[1]] # NoId =>
      \E target \in db[fk[2]] : target.id = r[fk[1]] /\ target.user_id = r.user_id

\* no reference names a row that does not exist
NoDanglingReference ==
  \A t \in Tables : \A r \in db[t] : \A fk \in ForeignKeys(t) :
    r[fk[1]] # NoId => \E target \in db[fk[2]] : target.id = r[fk[1]]

\* the step deletes row last'.id of table last'.table
DeleteStep == last'.op = "delete" /\ last'.count = 1

\* row r of table t after the step: the same row, its references to the
\* deleted row null and every other column as before
SurvivesDelete(t, r) ==
  \E r2 \in db'[t] :
    \A c \in Columns(t) :
      r2[c] = IF <<c, last'.table>> \in ForeignKeys(t) /\ r[c] = last'.id
                THEN NoId ELSE r[c]

\* C6: deleting a company, contact or deal deletes no dependent row: every
\* row that referenced it still exists with that reference null and its
\* other columns unchanged; no state holds a dangling reference.
C6_DeleteNullsReferences ==
  /\ []NoDanglingReference
  /\ [][DeleteStep =>
          \A t \in Tables : \A r \in db[t] :
            (t = last'.table /\ r.id = last'.id) \/ SurvivesDelete(t, r)]_vars

\* C6 witness: a referenced company, contact or deal has been deleted and the
\* rows that referenced it are still stored, with a null reference.
C6_Witness ==
  /\ last.op = "delete"
  /\ last.count = 1
  /\ last.nulled # {}
  /\ \A i \in last.nulled : \E t \in Tables : \E r \in db[t] : r.id = i


(* -------------------------- claims on the screens --------------------- *)

Messages == BagToSet(net)

\* C4 (as claimed): every insert request a screen issues carries the
\* session's user as user_id, and the store answers it without an error.
C4_InsertsCarrySessionUser ==
  \A m \in Messages :
    m.op = "insert" =>
      /\ "user_id" \in DOMAIN m.payload
      /\ m.payload.user_id = Session
      /\ m.stage = "response" => m.error = "none"

\* C7 (as claimed): once a create submission is answered, a fetch returns a
\* row that equals the submitted data in every field the server does not fill.
C7_CreatedRowEqualsSubmittedData ==
  \A m \in Messages :
    (m.op = "insert" /\ m.origin = "submit" /\ m.stage = "response") =>
      \E r \in Select(db, Session, m.table) :
        \A c \in DOMAIN m.payload \ {"id", "created_at", "updated_at"} :
          r[c] = m.payload[c]

\* the column a quick transition of table t writes
QuickColumn(t) == IF t = "tasks" THEN "status" ELSE "stage"

\* this step, the store answers the quick transition m without an error
QuickAnswered(m) ==
  LET answer == [m EXCEPT !.stage = "response"]
  IN /\ m.origin = "quick" /\ m.stage = "request"
     /\ CopiesIn(m, net') = CopiesIn(m, net) - 1
     /\ CopiesIn(answer, net') = CopiesIn(answer, net) + 1

\* C8: a quick transition to s, and the same transition issued again on a
\* row that already has s, leaves the targeted row with status / stage s and
\* its other fields as they were (updated_at apart), leaves every other row
\* unchanged and leaves the number of rows unchanged.
C8_QuickTransitionIdempotent ==
  [][\A m \in Messages :
       QuickAnswered(m) =>
         /\ Cardinality(db'[m.table]) = Cardinality(db[m.table])
         /\ \A t \in Tables \ {m.table} : db'[t] = db[t]
         /\ \A r \in db[m.table] :
              IF r.id # m.id
                THEN r \in db'[m.table]
                ELSE [r EXCEPT ![QuickColumn(m.table)] = m.payload[QuickColumn(m.table)],
                               !.updated_at = m.payload.updated_at] \in db'[m.table]]_vars

\* C8 witness: the same quick transition was issued twice, the store has
\* answered both, and the row, next to another row, has the status / stage.
C8_Witness ==
  \E m \in Messages :
    /\ m.origin = "quick" /\ m.stage = "response" /\ m.error = "none"
    /\ CopiesIn(m, net) = 2
    /\ Cardinality(db[m.table]) = 2
    /\ \E r \in db[m.table] :
         r.id = m.id /\ r[QuickColumn(m.table)] = m.payload[QuickColumn(m.table)]

\* C9 (as claimed): after every answered create or edit submission of a
\* deal, the stored probability of that deal lies in [0, 100].
C9_StoredProbabilityInRange ==
  \A m \in Messages :
    (m.table = "deals" /\ m.origin = "submit" /\ m.stage = "response"
       /\ m.error = "none") =>
      \A r \in db["deals"] : r.id = m.id => r.probability \in 0..100

\* C10 (as claimed): a listed task that is pending and past its due date
\* carries the overdue badge, and a completed task never does.
C10_OverdueBadge ==
  view = "Tasks" =>
    \A i \in 1..Len(list) :
      /\ (list[i].status = "pending" /\ list[i].due_date # NoTime
            /\ list[i].due_date < now) => OverdueBadge(list[i], now)
      /\ list[i].status = "completed" => ~OverdueBadge(list[i], now)

(* ------------------------ claims on the Dashboard --------------------- *)

\* the sum of the values of a function with a finite domain
RECURSIVE SumOf(_)
SumOf(f) ==
  IF DOMAIN f = {} THEN 0
  ELSE LET x == CHOOSE y \in DOMAIN f : TRUE
       IN f[x] + SumOf([y \in DOMAIN f \ {x} |-> f[y]])

\* every one of the five queries was answered without an error
FetchSucceeded == \A t \in DashboardTables : DashboardResult(t).error = "none"

\* C11: after a successful dashboard fetch totalDealValue is the sum of
\* the fetched deals' values, totalDeals their number, dealsByStage maps
\* each stage some fetched deal has to the number of fetched deals in it
\* (other stages are absent), and the per-stage counts sum to totalDeals.
C11_DealStatistics ==
  [][(DashboardDone /\ FetchSucceeded) =>
       LET deals == DashboardResult("deals").data
           at(s) == {i \in 1..Len(deals) : deals[i].stage = s}
       IN /\ stats'.totalDealValue = SumOf([i \in 1..Len(deals) |-> deals[i].value])
          /\ stats'.totalDeals = Len(deals)
          /\ DOMAIN dealsByStage' = {s \in DEAL_STAGES : at(s) # {}}
          /\ \A s \in DOMAIN dealsByStage' : dealsByStage'[s] = Cardinality(at(s))
          /\ SumOf(dealsByStage') = stats'.totalDeals]_vars

\* C11 witness: the fetch has ended with two deals of different stages
\* counted and their values summed.
C11_Witness ==
  /\ view = "Dashboard" /\ ~loading
  /\ stats.totalDeals = 2 /\ stats.totalDealValue = 3000
  /\ DOMAIN dealsByStage = {"lead", "qualified"}

\* C12: after a dashboard fetch activeTasks is the number of fetched tasks
\* that are pending or in progress, overdueTasks the number of those with a
\* due date strictly before the current instant, overdueTasks is at most
\* activeTasks, and a completed task counts in neither.
C12_TaskStatistics ==
  [][(DashboardDone /\ DashboardResult("tasks").error = "none") =>
       LET tasks == DashboardResult("tasks").data
           active == {i \in 1..Len(tasks) : tasks[i].status \in {"pending", "in_progress"}}
           overdue == {i \in active : tasks[i].due_date # NoTime /\ tasks[i].due_date < now}
           completed == {i \in 1..Len(tasks) : tasks[i].status = "completed"}
       IN /\ stats'.activeTasks = Cardinality(active)
          /\ stats'.overdueTasks = Cardinality(overdue)
          /\ stats'.overdueTasks <= stats'.activeTasks
          /\ stats'.activeTasks <= Len(tasks) - Cardinality(completed)]_vars

\* C12 witness: the fetch has ended after a completed task past its due
\* date and a pending task past its due date were fetched: one task is
\* active and overdue.
C12_Witness ==
  /\ view = "Dashboard" /\ ~loading /\ now > 0
  /\ {r.status : r \in db["tasks"]} = {"pending", "completed"}
  /\ \A r \in db["tasks"] : r.due_date = 0 /\ r.user_id = Session
  /\ stats.activeTasks = 1 /\ stats.overdueTasks = 1

\* C13 (as claimed): when one of the five queries fails, the fetch ends
\* with no statistic written: stats and dealsByStage keep their values.
C13_FailedFetchWritesNothing ==
  [][(DashboardDone /\ ~FetchSucceeded) => UNCHANGED dashVars]_vars

(* ----------------------- claims on the activity log ------------------- *)

\* C14 (as claimed): once created, an activity never changes in any field.
C14_ActivityNeverChanges ==
  [][\A r \in db["activities"] :
       \A r2 \in db'["activities"] : r2.id = r.id => r2 = r]_vars

\* the step removes the row of table t with the given id
DeletesRow(t, id) ==
  (\E x \in db[t] : x.id = id) /\ ~(\E x \in db'[t] : x.id = id)

\* C14 (amended): no screen sends an update or a delete of an activity; an
\* activity stays in the log, its fields other than contact_id, company_id
\* and deal_id never change, and such a reference changes only to null, in
\* the step that deletes the row it names.
C14_ActivityChangesOnlyBySetNull ==
  [][/\ \A m \in BagToSet(net') : m.table = "activities" => m.op \in {"insert", "select"}
     /\ \A r \in db["activities"] :
          \E r2 \in db'["activities"] :
            /\ r2.id = r.id
            /\ \A c \in ActivityColumns :
                 \/ r2[c] = r[c]
                 \/ \E t \in Tables :
                      /\ <<c, t>> \in ForeignKeys("activities")
                      /\ r2[c] = NoId
                      /\ DeletesRow(t, r[c])]_vars

\* C14 witness: the Contacts screen's delete of a contact has been answered
\* and the activity logged on that contact is still there, its contact_id
\* null.
C14_Witness ==
  /\ view = "Contacts"
  /\ last.op = "delete" /\ last.table = "contacts" /\ last.count = 1
  /\ \E r \in db["activities"] : r.id \in last.nulled /\ r.contact_id = NoId

(* ----------------------- claims on the Contacts list ------------------ *)

\* C15 (as claimed): once the creation of a contact linked to a company is
\* answered, the Contacts list query returns that contact with the linked
\* company embedded; and every fetched contact embeds the company whose id
\* is its company_id, none when company_id is null.
C15_LinkedContactListed ==
  view = "Contacts" =>
    /\ \A m \in Messages :
         (m.op = "insert" /\ m.origin = "submit" /\ m.stage = "response"
            /\ m.payload.company_id # NoId) =>
           LET fetched == ListQuery(db, Session, "Contacts")
           IN \E i \in 1..Len(fetched) :
                /\ fetched[i].first_name = m.payload.first_name
                /\ fetched[i].company_id = m.payload.company_id
                /\ fetched[i].company # <<>>
                /\ fetched[i].company[1].id = m.payload.company_id
    /\ \A i \in 1..Len(list) :
         IF list[i].company_id = NoId
           THEN list[i].company = <<>>
           ELSE list[i].company # <<>> /\ list[i].company[1].id = list[i].company_id

(* --------------------------- claims on deletes ------------------------ *)

\* the delete requests in flight in the bag b
DeleteRequests(b) ==
  SumOf([m \in {x \in BagToSet(b) : x.op = "delete" /\ x.stage = "request"} |->
           CopiesIn(m, b)])

\* C16: a delete request is sent only by a confirmed handleDelete; a
\* declined one sends nothing and leaves the store, the list and the
\* requests in flight (so also the refetches) unchanged; and the step that
\* takes up the answer of a delete that succeeded sends one list fetch.
C16_DeleteOnlyAfterConfirm ==
  [][/\ DeleteRequests(net') > DeleteRequests(net) =>
          \E id \in ListIds : HandleDelete(id, TRUE)
     /\ (\E id \in ListIds : HandleDelete(id, FALSE)) =>
          (db' = db /\ list' = list /\ net' = net)
     /\ \A m \in Messages :
          (m.origin = "delete" /\ m.error = "none" /\ MutationDone(m)) =>
            CopiesIn(FetchList(view), net') = CopiesIn(FetchList(view), net) + 1]_vars

\* C16 witness: a confirmed delete has removed a listed row and the
\* refetch that follows it is in flight.
C16_Witness ==
  /\ view \in {"Contacts", "Deals", "Tasks"}
  /\ last.op = "delete" /\ last.count = 1 /\ last.id \in ListIds
  /\ \A r \in db[TableOf(view)] : r.id # last.id
  /\ CopiesIn(FetchList(view), net) = 1
  /\ \A m \in Messages : m.op # "delete"

(* ---------------------- claims on form submissions -------------------- *)

\* the text columns whose input carries the required attribute
RequiredTexts(t) ==
  CASE t = "tasks" -> {"title"}
    [] t = "deals" -> {"title"}
    [] t = "contacts" -> {"first_name", "last_name"}
    [] t = "activities" -> {"subject"}

\* C17: no insert or update request of a form carries an empty required
\* field (task or deal title, contact first or last name, activity
\* subject), and a blocked submission leaves the form open.
C17_RequiredFieldsPresent ==
  /\ \A m \in Messages :
       m.origin = "submit" => \A c \in RequiredTexts(m.table) : m.payload[c] # ""
  /\ blocked => isModalOpen

\* C17 witness: the user has pressed the submit button of a form whose
\* required field is empty: the form is open and nothing was sent.
C17_Witness ==
  /\ blocked /\ isModalOpen
  /\ \E c \in RequiredTexts(TableOf(view)) : formData[c] = ""
  /\ \A m \in Messages : m.origin # "submit"

(* ---------------------------- claims on updates ----------------------- *)

\* C18: every update request a screen sends (form edit, quick transition)
\* carries updated_at equal to the clock at the moment it is sent, and the
\* step in which the store applies an update to a row leaves that row's
\* updated_at equal to the request's.
C18_UpdatesRestampUpdatedAt ==
  [][/\ \A m \in BagToSet(net') :
          (m.op = "update" /\ m.stage = "request"
             /\ CopiesIn(m, net') > CopiesIn(m, net)) =>
            ("updated_at" \in DOMAIN m.payload /\ m.payload.updated_at = now)
     /\ \A m \in Messages :
          (m.op = "update" /\ StoreProcess(m)
             /\ last'.error = "none" /\ last'.count = 1) =>
            \E r \in db'[m.table] :
              r.id = m.id /\ r.updated_at = m.payload.updated_at]_vars

\* C18 witness: a row created at instant 0 was updated by a screen at a
\* later instant and carries that instant as updated_at.
C18_Witness ==
  /\ now > 0
  /\ last.op = "update" /\ last.error = "none" /\ last.count = 1
  /\ \E r \in db[last.table] :
       r.id = last.id /\ r.created_at = 0 /\ r.updated_at = now

(* ------------------------ claims on the activity form ----------------- *)

\* C20 (as claimed): an activity submitted from a form whose date field the
\* user has not edited is sent with activity_date equal to the time of the
\* submission, to the minute.
C20_ActivityDateIsSubmissionTime ==
  [][\A m \in BagToSet(net') :
       (m.table = "activities" /\ m.op = "insert"
          /\ CopiesIn(m, net') > CopiesIn(m, net)) =>
         m.payload.activity_date = MinuteString(now)[1]]_vars

(* ------------------------ claims on the text columns ------------------ *)

\* C19 (as claimed): every stored deal's stage, every stored task's
\* priority and status and every stored activity's type is one of the
\* values listed for it.
C19_EnumColumnsWithinValues ==
  /\ \A r \in db["deals"] : r.stage \in DEAL_STAGES
  /\ \A r \in db["tasks"] : r.priority \in PRIORITIES /\ r.status \in STATUSES
  /\ \A r \in db["activities"] : r.type \in ACTIVITY_TYPES

(* ------------------------ claims on the fetch cycle ------------------- *)

\* C21: the list changes only in the step that takes up a successful list
\* fetch; the step that takes up a successful form submission closes the
\* modal, clears the editing selection, resets the form and sends exactly
\* one list fetch; and a list fetch is sent only by a step that takes up
\* the response of a mutation.
C21_ListReplacedOnlyByFetch ==
  [][/\ list' # list =>
          \E m \in Messages :
            FetchDone(m) /\ m.target = "list" /\ m.error = "none"
     /\ \A m \in Messages :
          (m.origin = "submit" /\ m.error = "none" /\ SubmitDone(m)) =>
            /\ ~isModalOpen' /\ editing' = NoId
            /\ formData' = FormDefaults(view, now)
            /\ CopiesIn(FetchList(view), net') = CopiesIn(FetchList(view), net) + 1
     /\ CopiesIn(FetchList(view), net') > CopiesIn(FetchList(view), net) =>
          \E m \in Messages :
            /\ m.stage = "response" /\ m.error = "none"
            /\ m.op \in {"insert", "update", "delete"}
            /\ CopiesIn(m, net') = CopiesIn(m, net) - 1]_vars

\* C21 witness: the edit of a contact has been applied by the store and
\* taken up by the screen: the modal is closed, nothing is selected, the
\* refetch is in flight and the list is still the one fetched before.
C21_Witness ==
  /\ view = "Contacts"
  /\ last.op = "update" /\ last.error = "none" /\ last.count = 1
  /\ ~isModalOpen /\ editing = NoId
  /\ formData = FormDefaults(view, now)
  /\ CopiesIn(FetchList(view), net) = 1
  /\ \A m \in Messages : m.origin # "submit"
  /\ list # <<>>

(* ----------------------- claims on failed requests -------------------- *)

\* C22: the step that takes up the error of an insert, update, delete or
\* quick transition sends nothing (no retry, no refetch) and leaves the
\* list, the modal, the editing selection and the form data as they were;
\* the step that takes up the error of a list fetch sends nothing and
\* leaves the list as it was.
C22_FailureLeavesClientState ==
  [][\A m \in Messages :
       /\ (m.origin \in {"submit", "delete", "quick"} /\ m.stage = "response"
             /\ m.error # "none" /\ (SubmitDone(m) \/ MutationDone(m))) =>
            /\ net' = Take(m)
            /\ list' = list
            /\ UNCHANGED <<isModalOpen, editing, formData>>
       /\ (m.origin = "fetch" /\ m.target = "list" /\ m.stage = "response"
             /\ m.error # "none" /\ FetchDone(m)) =>
            (net' = Take(m) /\ list' = list)]_vars

\* C22 witness: a create submission was rejected and the screen has taken
\* up the error: the modal is open with the entered data, the fetched list
\* is shown and no request is in flight.
C22_Witness ==
  /\ last.op = "insert" /\ last.error # "none"
  /\ isModalOpen /\ FormValid(view, formData)
  /\ list # <<>>
  /\ net = EmptyBag

(* ---------------------- claims on quick transitions ------------------- *)

\* C23: a quick transition sends only the status (of a task) or stage (of a
\* deal) and updated_at; when the store applies it, every row other than
\* the targeted one is left as it was in every table and the targeted row
\* keeps every other column; and no step of the transition (the click, the
\* store's answer, the handling of the answer) changes the modal, the
\* editing selection or the form data.
C23_QuickTransitionFrame ==
  [][\A m \in BagToSet(net) \cup BagToSet(net') :
       m.origin = "quick" =>
         /\ DOMAIN m.payload = {QuickColumn(m.table), "updated_at"}
         /\ (m.stage = "request" /\ StoreProcess(m)) =>
              \A t \in Tables : \A r \in db[t] :
                \/ r \in db'[t]
                \/ /\ t = m.table /\ r.id = m.id
                   /\ \E r2 \in db'[t] :
                        /\ r2.id = r.id
                        /\ \A c \in Columns(t) \ {QuickColumn(t), "updated_at"} :
                             r2[c] = r[c]
         /\ CopiesIn(m, net') # CopiesIn(m, net) =>
              UNCHANGED <<isModalOpen, editing, formData>>]_vars

\* C23 witness: a quick transition has been applied to one of two rows of
\* a table at a later instant than the rows' creation: the row has the new
\* status or stage and the new updated_at, and the form is closed and at
\* its defaults.
C23_Witness ==
  /\ now > 0
  /\ ~isModalOpen /\ editing = NoId
  /\ \E m \in Messages :
       /\ m.origin = "quick" /\ m.stage = "response" /\ m.error = "none"
       /\ Cardinality(db[m.table]) = 2
       /\ \E r \in db[m.table] :
            /\ r.id = m.id /\ r.created_at = 0 /\ r.updated_at = now
            /\ r[QuickColumn(m.table)] = m.payload[QuickColumn(m.table)]
       /\ \E r \in db[m.table] : r.id # m.id /\ r.updated_at = 0

(* ------------------------ claims on the list mirror ------------------- *)

\* C24 (as claimed): once every request the screen has sent is completed
\* (nothing is in flight, the last write succeeded) the displayed list is
\* the answer the list query gives on the rows now stored.
C24_ListMirrorsStore ==
  (view \in Screens /\ net = EmptyBag /\ ~loading /\ last.error = "none") =>
    list = ListQuery(db, Session, view)

(* ------------------------ claims on concurrent tabs ------------------- *)

\* C25: an update of a row of the session that exists is never refused,
\* whichever tab sent it and whatever was written to the row before: the
\* store answers without an error, one row updated, and the row then has
\* the request's value in every column the request carries.
C25_LastWriteWins ==
  [][\A m \in Messages :
       (m.op = "update" /\ m.stage = "request" /\ StoreProcess(m)
          /\ \E r \in db[m.table] : r.id = m.id /\ r.user_id = Session) =>
         /\ last'.error = "none" /\ last'.count = 1
         /\ \E r2 \in db'[m.table] :
              /\ r2.id = m.id
              /\ \A c \in DOMAIN m.payload \cap Columns(m.table) :
                   r2[c] = m.payload[c]]_vars

\* C25 witness: the second tab's completion of a task and this tab's form
\* edit of the same task, submitted from the copy this tab displays, have
\* both been applied without an error, and the stored status is the form's,
\* not completed: the edit was processed last and overwrote the completion.
C25_Witness ==
  \E m \in Messages, m2 \in Messages :
    /\ m.origin = "submit" /\ m.op = "update" /\ m.stage = "response" /\ m.error = "none"
    /\ m2.origin = "tab2" /\ m2.stage = "response" /\ m2.error = "none"
    /\ m2.id = m.id
    /\ m.payload.status # "completed"
    /\ \E i \in 1..Len(list) : list[i].id = m.id /\ list[i].status = m.payload.status
    /\ \E r \in db["tasks"] : r.id = m.id /\ r.status = m.payload.status

(* --------------------- claims on the completion rate ------------------ *)

\* C26 (as claimed): the displayed rate is round(100 * activeTasks /
\* (activeTasks + overdueTasks)), 0 when that sum is 0; it is 0 exactly when
\* there is no active task, otherwise between 50 and 100, and 100 exactly
\* when there are active tasks and none is overdue.
C26_RateHundredOnlyWithoutOverdue ==
  ~loading =>
    LET rate == CompletionRate(stats)
        a == stats.activeTasks
        o == stats.overdueTasks
    IN /\ (rate = 0) <=> (a = 0)
       /\ rate # 0 => rate \in 50..100
       /\ (rate = 100) <=> (a > 0 /\ o = 0)

\* C26 (amended): the displayed rate is 0 exactly when there is no active
\* task and otherwise between 50 and 100; it is at most one half away from
\* the exact quotient 100 * activeTasks / (activeTasks + overdueTasks); it
\* is 100 whenever there are active tasks and none is overdue, and also
\* whenever the active tasks are at least 199 times the overdue ones.
C26_CompletionRate ==
  ~loading =>
    LET rate == CompletionRate(stats)
        a == stats.activeTasks
        o == stats.overdueTasks
    IN /\ (rate = 0) <=> (a = 0)
       /\ rate # 0 => rate \in 50..100
       /\ a > 0 => /\ 2 * rate * (a + o) <= 200 * a + (a + o)
                   /\ 2 * rate * (a + o) >= 200 * a - (a + o)
       /\ (a > 0 /\ o = 0) => rate = 100
       /\ (rate = 100) <=> (a > 0 /\ a >= 199 * o)

\* C26 witness: 199 active tasks, one of them overdue, are shown with a
\* completion rate of 100.
C26_Witness ==
  /\ ~loading /\ view = "Dashboard"
  /\ stats.activeTasks = 199 /\ stats.overdueTasks = 1
  /\ CompletionRate(stats) = 100

(* -------------------------- claims on form edits ---------------------- *)

\* C27 (as claimed): when the store applies a form edit whose data are
\* those openModal puts into the form for the stored row (no input was
\* changed), every column of the row other than updated_at keeps its
\* value, null values included.
C27_UnchangedEditKeepsRow ==
  [][\A m \in Messages :
       (m.origin = "submit" /\ m.op = "update" /\ m.stage = "request"
          /\ StoreProcess(m) /\ last'.count = 1) =>
         \A r \in db[m.table] :
           (r.id = m.id
              /\ m.payload = Payload(view, OpenModalForm(view, r), m.payload.updated_at)) =>
             \E r2 \in db'[m.table] :
               /\ r2.id = r.id
               /\ \A c \in Columns(m.table) \ {"updated_at"} : r2[c] = r[c]]_vars

(* ----------------------- claims on create forms ----------------------- *)

\* the insert requests of handleSubmit that are on their way or answered
\* and not yet taken up
SubmittedInserts == {m \in Messages : m.origin = "submit" /\ m.op = "insert"}

\* C28 (as claimed): the create form issues at most one insert: never are
\* two inserts of handleSubmit under way at once, not even when the submit
\* control is activated while the first is in flight.
C28_OneInsertPerCreate ==
  \A m \in SubmittedInserts :
    /\ CopiesIn(m, net) = 1
    /\ \A m2 \in SubmittedInserts : m2 = m

(* ----------------------- claims on the Deals board -------------------- *)

\* C29 (as claimed): whenever the board is shown, the numbers of deals of
\* the six stage columns add up to the number of fetched deals, and the
\* columns' value subtotals add up to the header's Total Value.
C29_BoardPartitionsDeals ==
  (view = "Deals" /\ ~loading) =>
    /\ SumOf([s \in DEAL_STAGES |-> Len(getDealsByStage(list, s))]) = Len(list)
    /\ SumOf([s \in DEAL_STAGES |-> TotalValue(getDealsByStage(list, s))])
         = getTotalValue(list)

(* --------------------- claims on quick transitions -------------------- *)

\* the place of a status in the order pending, in_progress, completed
StatusRank(s) == CASE s = "pending" -> 1 [] s = "in_progress" -> 2 [] s = "completed" -> 3
                   [] OTHER -> 0

\* C30 (as claimed): when the store applies a quick transition of the
\* Tasks screen, the task's stored status only moves forward: a completed
\* task stays completed and a task in progress does not become pending.
C30_QuickTransitionsOnlyForward ==
  [][\A m \in Messages :
       (m.origin = "quick" /\ m.table = "tasks" /\ m.stage = "request" /\ StoreProcess(m)) =>
         \A r \in db["tasks"] : \A r2 \in db'["tasks"] :
           (r.id = m.id /\ r2.id = m.id /\ r.status \in STATUSES) =>
             StatusRank(r2.status) >= StatusRank(r.status)]_vars

====
